---- MODULE Spec2Model ----
(***************************************************************************)
(* NF4 block-wise quantization codec of transformer_nuggets:               *)
(*   QLoRAWeight       (vectorized)   src/transformer_nuggets/qnt/qlora.py *)
(*   QLoRAWeightDebug  (per element)  src/transformer_nuggets/qnt/qlora.py *)
(*                                                                         *)
(* Numbers.  A tensor element is a record [n, d] standing for the rational *)
(* n/d (d > 0).  d = 0 encodes the non-finite floats: n = 0 is NaN, n = 1  *)
(* is +inf, n = -1 is -inf.  Every bfloat16 operation of the code is the   *)
(* exact rational operation followed by BF16 (round to 8 significant bits, *)
(* ties to even).  The sign of a zero is not modelled (-0.0 = 0.0 in every *)
(* comparison the code makes); exponent range limits are not reached by    *)
(* the bounded inputs.                                                     *)
(***************************************************************************)
EXTENDS Integers, Sequences, FiniteSets, TLC

\* ------------------------------------------------------------------ bounds
MaxLen == 4
MaxAbs == 2
MaxBlockSize == 2
MaxProbe == 10
MaxScale == 8
MaxBlocks == 3
MaxScalerBlockSize == 3
MaxArtifactBlockSize == 4
MaxArtifactBlocks == 2
MaxArtifactBytes == 3
MaxArtifactNumel == 8
MaxLoopLen == 8
MaxLoopBlockSize == 4
MaxMagnitude == 23
MaxIters == 8
MaxAccumulationIters == 3
MaxInterval == 3
MaxMicroBatch == 2

\* ------------------------------------------------------------- arithmetic
Abs(k) == IF k < 0 THEN 0 - k ELSE k

Rat(n, d) == [n |-> n, d |-> d]

NaN == Rat(0, 0)

IsNaN(r) == r.d = 0 /\ r.n = 0

\* a <= b as IEEE-754 compares: FALSE as soon as one side is NaN.
RLe(a, b) ==
    IF IsNaN(a) \/ IsNaN(b) THEN FALSE
    ELSE IF a.d = 0 THEN (a.n < 0 \/ (b.d = 0 /\ b.n > 0))
    ELSE IF b.d = 0 THEN b.n > 0
    ELSE a.n * b.d <= b.n * a.d

REq(a, b) == RLe(a, b) /\ RLe(b, a)

RLt(a, b) == RLe(a, b) /\ ~RLe(b, a)

RAbs(a) == Rat(Abs(a.n), a.d)

Sign(k) == IF k < 0 THEN 0 - 1 ELSE IF k > 0 THEN 1 ELSE 0

\* a - b for finite a, b.
RSub(a, b) == Rat(a.n * b.d - b.n * a.d, a.d * b.d)

\* The exact product; inf * 0 and NaN give NaN.
RMulExact(a, b) ==
    IF IsNaN(a) \/ IsNaN(b) THEN NaN
    ELSE IF a.d = 0 \/ b.d = 0
         THEN (IF a.n = 0 \/ b.n = 0 THEN NaN ELSE Rat(Sign(a.n) * Sign(b.n), 0))
    ELSE Rat(a.n * b.n, a.d * b.d)

\* The exact quotient; x/0 is +-inf, 0/0 and inf/inf are NaN.
RDivExact(a, b) ==
    IF IsNaN(a) \/ IsNaN(b) THEN NaN
    ELSE IF a.d = 0 THEN (IF b.d = 0 THEN NaN
                          ELSE Rat(a.n * (IF b.n < 0 THEN 0 - 1 ELSE 1), 0))
    ELSE IF b.d = 0 THEN Rat(0, 1)
    ELSE IF b.n = 0 THEN (IF a.n = 0 THEN NaN ELSE Rat(Sign(a.n), 0))
    ELSE Rat(a.n * b.d * Sign(b.n), a.d * Abs(b.n))

RECURSIVE Pow2(_)
Pow2(k) == IF k = 0 THEN 1 ELSE 2 * Pow2(k - 1)

\* The least e >= 0 with 128 * d <= a * 2^e  (a, d > 0).
RECURSIVE ShiftUp(_, _, _)
ShiftUp(a, d, e) == IF 128 * d <= a * Pow2(e) THEN e ELSE ShiftUp(a, d, e + 1)

\* The least f >= 0 with a < 256 * d * 2^f  (a, d > 0).
RECURSIVE ShiftDown(_, _, _)
ShiftDown(a, d, f) == IF a < 256 * d * Pow2(f) THEN f ELSE ShiftDown(a, d, f + 1)

\* m / 2^e in lowest terms (m > 0, e >= 0).
RECURSIVE Dyadic(_, _)
Dyadic(m, e) == IF e > 0 /\ m % 2 = 0 THEN Dyadic(m \div 2, e - 1) ELSE Rat(m, Pow2(e))

\* num/den rounded to the nearest integer, ties to even (num >= 0, den > 0).
RoundHalfEven(num, den) ==
    LET q == num \div den
        r == num % den
    IN  IF 2 * r > den \/ (2 * r = den /\ q % 2 = 1) THEN q + 1 ELSE q

\* Conversion to torch.bfloat16: 8 significant bits, nearest, ties to even.
BF16(r) ==
    IF r.d = 0 THEN r
    ELSE IF r.n = 0 THEN Rat(0, 1)
    ELSE LET a == Abs(r.n)
             f == ShiftDown(a, r.d, 0)
             e == ShiftUp(a, r.d, 0)
             mag == IF f > 0
                    THEN Rat(RoundHalfEven(a, r.d * Pow2(f)) * Pow2(f), 1)
                    ELSE Dyadic(RoundHalfEven(a * Pow2(e), r.d), e)
         IN  Rat(Sign(r.n) * mag.n, mag.d)

\* bfloat16 tensor arithmetic: the exact result rounded to bfloat16.
RDiv(a, b) == BF16(RDivExact(a, b))

RMul(a, b) == BF16(RMulExact(a, b))

RECURSIVE RMaxAbs(_, _)
RMaxAbs(s, acc) ==
    IF s = <<>> THEN acc
    ELSE RMaxAbs(Tail(s), IF RLe(acc, RAbs(Head(s))) THEN RAbs(Head(s)) ELSE acc)

\* Python's s[i] for a 0-based index.
At(s, i) == s[i + 1]

\* Python's s[lo:hi] (0-based, hi exclusive, both clipped to the length).
Slice(s, lo, hi) ==
    LET h == IF hi > Len(s) THEN Len(s) ELSE hi
    IN  IF lo >= h THEN <<>> ELSE [k \in 1..(h - lo) |-> s[lo + k]]

\* ------------------------------------------------------------- bit tricks
RECURSIVE BitOr(_, _)
BitOr(a, b) ==
    IF a = 0 THEN b
    ELSE IF b = 0 THEN a
    ELSE 2 * BitOr(a \div 2, b \div 2) + (IF a % 2 = 1 \/ b % 2 = 1 THEN 1 ELSE 0)

RECURSIVE BitAnd(_, _)
BitAnd(a, b) ==
    IF a = 0 \/ b = 0 THEN 0
    ELSE 2 * BitAnd(a \div 2, b \div 2) + (IF a % 2 = 1 /\ b % 2 = 1 THEN 1 ELSE 0)

\* Fault variant of ShiftLeft4: a shift by 3 bits.
ShiftLeft3(a) == a * 8

ShiftLeft4(a) == a * 16

ShiftRight4(a) == a \div 16

\* Tensor.to(torch.uint8) of a non-negative int64: the low 8 bits.
ToUint8(a) == a % 256

\* --------------------------------------------------------------- codebook
\* The sixteen literals of the table, in ten-thousandths.
NF4Literals ==
    << 0 - 10000, 0 - 6962, 0 - 5251, 0 - 3949, 0 - 2844, 0 - 1848, 0 - 911, 0,
       796, 1609, 2461, 3379, 4407, 5626, 7230, 10000 >>

\* QLoRAWeight.nf4: the table built with dtype=torch.bfloat16.
nf4 == [i \in 1..16 |-> BF16(Rat(NF4Literals[i], 10000))]

\* QLoRAWeightDebug.get_nkf(): the table at the default dtype (float32).  A float32
\* literal is within 2^-25 of the decimal, and no bfloat16 value lies that close to
\* one of them without being equal: comparing against the decimal is exact.
get_nkf == [i \in 1..16 |-> Rat(NF4Literals[i], 10000)]

\* -------------------------------------------------------------- quantizer
\* Fault variant of quantize_element: the count itself, without "16 -".
quantize_element_count_only(value, table) ==
    BitOr(0, Cardinality({i \in 1..Len(table) : RLe(value, table[i])}))

\* Fault variant of quantize_element: the mask taken with < for <=.
quantize_element_strict(value, table) ==
    BitOr(0, 16 - Cardinality({i \in 1..Len(table) : RLt(value, table[i])}))

\* QLoRAWeight.quantize_tensor on one element: 16 minus the number of table
\* entries the value is <= to, then 0 | indexes.
quantize_element(value, table) ==
    BitOr(0, 16 - Cardinality({i \in 1..Len(table) : RLe(value, table[i])}))

quantize_tensor(value, table) ==
    [k \in 1..Len(value) |-> quantize_element(value[k], table)]

\* QLoRAWeightDebug.quantize: the linear scan, from position i on.
RECURSIVE quantize_scan(_, _, _)
quantize_scan(value, nkf, i) ==
    IF i >= Len(nkf) THEN BitOr(0, Len(nkf) - 1)
    ELSE IF RLe(value, At(nkf, i)) THEN BitOr(0, i)
    ELSE quantize_scan(value, nkf, i + 1)

quantize(value, nkf) == quantize_scan(value, nkf, 0)

\* Fault variant of dequantize: the entry before the indexed one.
dequantize_previous(value, table) == At(table, IF value > 0 THEN value - 1 ELSE 0)

\* Fault variant of dequantize: the entry after the indexed one.
dequantize_next(value, table) == At(table, IF value < 15 THEN value + 1 ELSE 15)

\* nf4[value] for a 0-based index.
dequantize(value, table) == At(table, value)

\* ------------------------------------------------------------------ state
VARIABLES
    inpt_tensor,    \* the caller's tensor, flattened: a sequence of numbers
    block_size,     \* the block_size argument of both constructors
    qlora,          \* the QLoRAWeight object, or the exception its constructor raised
    qlora_debug,    \* the QLoRAWeightDebug object, likewise
    weight,         \* what qlora.get_original_weight() last returned or raised
    weight_debug,   \* what qlora_debug.get_original_weight() last returned or raised
    value,          \* quantizer harness: the tensor handed to the static quantizers
    indexes,        \* quantizer harness: quantize_tensor(value, nf4)
    indexes_debug,  \* quantizer harness: quantize(v, nkf) for each v of value
    packed,         \* quantizer harness: the uint8 the index pair is combined into
    unpacked,       \* quantizer harness: the two nibbles read back from packed
    scaler_block_size,  \* the scaler_block_size argument of the double quantization
    double_quantized,   \* quantized_scalers, quantization_factor and scaler_mean
    dequantized_scalers, \* what dequantize_scalers(...) last returned
    qlora2,         \* QLoRAWeight(weight, block_size): the decoded tensor encoded again
    weight2,        \* what qlora2.get_original_weight() last returned or raised
    encode_loop,    \* the block loop of get_norm_float_weight, one byte write at a time
    hyper_params,   \* train: max_iters and gradient_accumulation_iters
    training_config, \* train: eval_interval and save_interval
    micro_batch,    \* train: len(input_ids) of every batch
    completed,      \* train: the number of iterations of the loop that ran to their end
    step_count,     \* train: the local step_count
    this_batch_loss, \* train: the running loss, every loss counted as 1
    this_batch_n,   \* train: the running sample count
    grads,          \* train: the backward passes accumulated since the last zero_grad()
    optimizer_steps, \* train: per optimizer.step(), the backward passes it consumed
    stepped_at,     \* train: the iter_num of every optimizer.step(); zero_grad() pair
    reset_at,       \* train: the iter_num of every reset of the running loss and count
    train_status    \* train: "none", "running", "returned" or the exception raised

vars ==
    << inpt_tensor, block_size, qlora, qlora_debug, weight, weight_debug,
       value, indexes, indexes_debug, packed, unpacked,
       scaler_block_size, double_quantized, dequantized_scalers,
       qlora2, weight2, encode_loop,
       hyper_params, training_config, micro_batch, completed, step_count,
       this_batch_loss, this_batch_n, grads, optimizer_steps, stepped_at, reset_at,
       train_status >>

scaler_vars == << scaler_block_size, double_quantized, dequantized_scalers >>

codec_vars == << inpt_tensor, block_size, qlora, qlora_debug, weight, weight_debug >>

harness_vars == << value, indexes, indexes_debug, packed, unpacked >>

reencode_vars == << qlora2, weight2 >>

train_vars ==
    << hyper_params, training_config, micro_batch, completed, step_count,
       this_batch_loss, this_batch_n, grads, optimizer_steps, stepped_at, reset_at,
       train_status >>

\* What the codec, the static quantizers and the double quantization leave alone.
extra_vars == << reencode_vars, encode_loop, train_vars >>

\* An object slot: status "none" before construction, "ok" for a constructed object,
\* otherwise the name of the exception that ended the constructor.  quantized_blocks
\* and combined_blocks keep the constructor's locals of the same names (the indexes
\* before they are combined, the combined values before the cast to uint8).
Object(status, bs, nb, sc, nfw, shape, qb, cb) ==
    [ status |-> status, block_size |-> bs, n_blocks |-> nb, scalers |-> sc,
      norm_float_weight |-> nfw, original_shape |-> shape,
      quantized_blocks |-> qb, combined_blocks |-> cb ]

NoObject == Object("none", 0, 0, <<>>, <<>>, <<>>, <<>>, <<>>)

Raised(exc) == Object(exc, 0, 0, <<>>, <<>>, <<>>, <<>>, <<>>)

\* A call's outcome: status "none" before the call, "ok" with the returned tensor,
\* otherwise the exception raised.
Returned(data) == [status |-> "ok", data |-> data]

NotCalled == [status |-> "none", data |-> <<>>]

Threw(exc) == [status |-> exc, data |-> <<>>]

\* ---------------------------------------------------------------- asserts
\* assert inpt_tensor.numel() % block_size == 0
divisible_by_block_size(t, bs) == Len(t) % bs = 0

\* Fault variant of numel_is_even: the assert left out.
numel_is_even_unchecked(t) == TRUE

\* assert numel % 2 == 0
numel_is_even(t) == Len(t) % 2 = 0

\* ------------------------------------------------- QLoRAWeight (vectorized)
\* The largest element of s, sign included (s non-empty).
RECURSIVE RMaxSigned(_, _)
RMaxSigned(s, acc) ==
    IF s = <<>> THEN acc
    ELSE RMaxSigned(Tail(s), IF RLe(acc, Head(s)) THEN Head(s) ELSE acc)

\* Fault variant of get_scalers: blocks.max(dim=1).values, the .abs() left out.
get_scalers_no_abs(t, n_blocks, bs) ==
    [i \in 1..n_blocks |->
        LET block == Slice(t, (i - 1) * bs, i * bs)
        IN  RMaxSigned(Tail(block), Head(block))]

\* Fault variant of get_scalers: the view taken as (block_size, n_blocks) and
\* reduced over dim 0, so that "block" i is every n_blocks-th element from i on.
get_scalers_strided(t, n_blocks, bs) ==
    [i \in 1..n_blocks |->
        RMaxAbs([j \in 1..bs |-> t[i + (j - 1) * n_blocks]], Rat(0, 1))]

\* flattened_tensor.view(n_blocks, block_size), blocks.abs().max(dim=1).values
get_scalers(t, n_blocks, bs) ==
    [i \in 1..n_blocks |-> RMaxAbs(Slice(t, (i - 1) * bs, i * bs), Rat(0, 1))]

\* Fault variant of scaled_blocks: the scales expanded along the wrong dimension.
scaled_blocks_wrong_scale(t, scalers, bs) ==
    [k \in 1..Len(t) |-> RDiv(t[k], scalers[((k - 1) % Len(scalers)) + 1])]

\* blocks / scales, flattened: element k divided by the scale of its block.
scaled_blocks(t, scalers, bs) ==
    [k \in 1..Len(t) |-> RDiv(t[k], scalers[((k - 1) \div bs) + 1])]

\* quantized_blocks[::2] << 4 | quantized_blocks[1::2]   (int64, before the cast)
combine(qb) ==
    [k \in 1..(Len(qb) \div 2) |-> BitOr(ShiftLeft4(qb[2 * k - 1]), qb[2 * k])]

\* QLoRAWeight.__init__ with convert_to_norm_float_weight inlined: the object, or
\* the AssertionError of the first assert that fails.
QLoRAWeight(t, bs) ==
    IF ~divisible_by_block_size(t, bs) THEN Raised("AssertionError")
    ELSE LET n_blocks == Len(t) \div bs
             scalers == get_scalers(t, n_blocks, bs)
         IN  IF ~numel_is_even(t) THEN Raised("AssertionError")
             ELSE LET qb == quantize_tensor(scaled_blocks(t, scalers, bs), nf4)
                      cb == combine(qb)
                  IN  Object("ok", bs, n_blocks, scalers,
                             [k \in 1..Len(cb) |-> ToUint8(cb[k])], <<Len(t)>>, qb, cb)

\* a * b of two 1-D tensors under torch broadcasting: equal lengths, or one of
\* them of length 1; anything else raises.
Broadcastable(a, b) == Len(a) = Len(b) \/ Len(a) = 1 \/ Len(b) = 1

BroadcastMul(a, b) ==
    LET n == IF Len(a) = 1 THEN Len(b) ELSE IF Len(b) = 1 THEN Len(a) ELSE Len(a)
    IN  [k \in 1..n |-> RMul(IF Len(a) = 1 THEN a[1] ELSE a[k],
                             IF Len(b) = 1 THEN b[1] ELSE b[k])]

\* scalers.unsqueeze(-1).expand(scalers.size(0), block_size // 2).flatten()
repeated(scalers, bs) ==
    [k \in 1..(Len(scalers) * (bs \div 2)) |-> scalers[((k - 1) \div (bs \div 2)) + 1]]

\* Fault variant of interleave: torch.cat for torch.stack, all first elements and
\* then all second elements.
interleave_concat(a, b) == a \o b

\* torch.stack([first, second], dim=-1) flattened: first[0], second[0], first[1], ...
interleave(a, b) ==
    [k \in 1..(2 * Len(a)) |-> IF k % 2 = 1 THEN a[(k + 1) \div 2] ELSE b[k \div 2]]

\* QLoRAWeight.get_original_weight
get_original_weight(self) ==
    LET first_elements == [k \in 1..Len(self.norm_float_weight) |->
                              ShiftRight4(self.norm_float_weight[k])]
        second_elements == [k \in 1..Len(self.norm_float_weight) |->
                              BitAnd(self.norm_float_weight[k], 15)]
        dequantized_first == [k \in 1..Len(first_elements) |->
                              dequantize(first_elements[k], nf4)]
        dequantized_second == [k \in 1..Len(second_elements) |->
                              dequantize(second_elements[k], nf4)]
        rep == repeated(self.scalers, self.block_size)
    IN  IF ~Broadcastable(dequantized_first, rep) THEN Threw("RuntimeError")
        ELSE LET scaled_first == BroadcastMul(dequantized_first, rep)
                 scaled_second == BroadcastMul(dequantized_second, rep)
             IN  IF 2 * Len(scaled_first) # self.original_shape[1]
                 THEN Threw("RuntimeError")
                 ELSE Returned(interleave(scaled_first, scaled_second))

\* ----------------------------------------- QLoRAWeightDebug (per element)
Min(a, b) == IF a < b THEN a ELSE b

\* QLoRAWeightDebug.get_scalers: the loop over block_start, from block i on.
RECURSIVE Debug_get_scalers(_, _, _, _)
Debug_get_scalers(t, bs, block_start, block_scalers) ==
    IF block_start >= Len(t) THEN block_scalers
    ELSE LET block_end == Min(block_start + bs, Len(t))
             block == Slice(t, block_start, block_end)
         IN  Debug_get_scalers(t, bs, block_start + bs,
                               Append(block_scalers, RMaxAbs(block, Rat(0, 1))))

\* The loop state of get_norm_float_weight: exc is "" while no exception was
\* raised; elements collects element_1, element_2 in the order they are computed.
LoopState(exc, quantized_tensor, elements) ==
    [exc |-> exc, quantized_tensor |-> quantized_tensor, elements |-> elements]

\* The inner loop "for j in range(0, self.block_size, 2)" of block i, from j on.
\* block is the block after "block /= self.scalers[i]".
RECURSIVE Debug_quantize_block(_, _, _, _, _)
Debug_quantize_block(block, bs, i, j, st) ==
    IF j >= bs THEN st
    ELSE IF j + 1 >= Len(block) THEN LoopState("IndexError", st.quantized_tensor, st.elements)
    ELSE LET element_1 == quantize(At(block, j), get_nkf)
             element_2 == quantize(At(block, j + 1), get_nkf)
             combined == BitOr(ShiftLeft4(element_1), element_2)
             pos == ((i * bs) \div 2) + (j \div 2)
         IN  IF pos >= Len(st.quantized_tensor)
             THEN LoopState("IndexError", st.quantized_tensor, st.elements)
             ELSE Debug_quantize_block(block, bs, i, j + 2,
                    LoopState("", [st.quantized_tensor EXCEPT ![pos + 1] = combined],
                              st.elements \o <<element_1, element_2>>))

\* The outer loop "for i in range(len(self.scalers))", from block i on.
RECURSIVE Debug_quantize_blocks(_, _, _, _, _)
Debug_quantize_blocks(t, scalers, bs, i, st) ==
    IF st.exc # "" \/ i >= Len(scalers) THEN st
    ELSE LET block_start == i * bs
             block_end == Min(block_start + bs, Len(t))
             sliced == Slice(t, block_start, block_end)
             block == [k \in 1..Len(sliced) |-> RDiv(sliced[k], At(scalers, i))]
         IN  Debug_quantize_blocks(t, scalers, bs, i + 1,
                                   Debug_quantize_block(block, bs, i, 0, st))

\* QLoRAWeightDebug.get_norm_float_weight
Debug_get_norm_float_weight(t, scalers, bs) ==
    IF ~numel_is_even(t) THEN LoopState("AssertionError", <<>>, <<>>)
    ELSE Debug_quantize_blocks(t, scalers, bs, 0,
                               LoopState("", [k \in 1..(Len(t) \div 2) |-> 0], <<>>))

\* QLoRAWeightDebug.__init__
QLoRAWeightDebug(t, bs) ==
    IF ~divisible_by_block_size(t, bs) THEN Raised("AssertionError")
    ELSE LET n_blocks == Len(t) \div bs
             scalers == Debug_get_scalers(t, bs, 0, <<>>)
             st == Debug_get_norm_float_weight(t, scalers, bs)
         IN  IF st.exc # "" THEN Raised(st.exc)
             ELSE Object("ok", bs, n_blocks, scalers, st.quantized_tensor, <<Len(t)>>,
                         st.elements, st.quantized_tensor)

\* torch.empty(n): every position holds whatever the memory held (garbage) until
\* it is written.
torch_empty(n, garbage) == [k \in 1..n |-> garbage]

\* What the memory torch.empty hands out may hold.
GarbageValues == { Rat(0, 1), Rat(1, 1), NaN }

\* One block of QLoRAWeightDebug.get_original_weight, from j on; ow is
\* original_weight.  block = original_weight[block_start:block_end] is a view: a
\* write past its (clipped) end raises.
RECURSIVE Debug_dequantize_block(_, _, _, _)
Debug_dequantize_block(self, i, j, ow) ==
    IF ow.exc # "" \/ j >= self.block_size THEN ow
    ELSE LET pos == ((i * self.block_size) \div 2) + (j \div 2)
             block_start == i * self.block_size
             block_len == Min(block_start + self.block_size, Len(ow.data)) - block_start
         IN  IF pos >= Len(self.norm_float_weight) \/ j + 1 >= block_len
             THEN [exc |-> "IndexError", data |-> ow.data, writes |-> ow.writes]
             ELSE LET combined == At(self.norm_float_weight, pos)
                      element_1 == ShiftRight4(combined)
                      element_2 == BitAnd(combined, 15)
                      s == At(self.scalers, i)
                  IN  Debug_dequantize_block(self, i, j + 2,
                        [exc |-> "",
                         data |-> [ow.data EXCEPT
                            ![block_start + j + 1] = RMul(dequantize(element_1, get_nkf), s),
                            ![block_start + j + 2] = RMul(dequantize(element_2, get_nkf), s)],
                         writes |-> [ow.writes EXCEPT
                            ![block_start + j + 1] = @ + 1,
                            ![block_start + j + 2] = @ + 1]])

RECURSIVE Debug_dequantize_blocks(_, _, _)
Debug_dequantize_blocks(self, i, ow) ==
    IF ow.exc # "" \/ i >= Len(self.scalers) THEN ow
    ELSE Debug_dequantize_blocks(self, i + 1, Debug_dequantize_block(self, i, 0, ow))

\* QLoRAWeightDebug.get_original_weight; writes counts, per position of
\* original_weight, the assignments the loop made to it.
Debug_get_original_weight(self, garbage) ==
    LET empty == torch_empty(2 * Len(self.norm_float_weight), garbage)
        ow == Debug_dequantize_blocks(self, 0,
                  [exc |-> "", data |-> empty, writes |-> [k \in 1..Len(empty) |-> 0]])
    IN  IF ow.exc # "" THEN Threw(ow.exc)
        ELSE IF Len(ow.data) # self.original_shape[1] THEN Threw("RuntimeError")
        ELSE [status |-> "ok", data |-> ow.data, writes |-> ow.writes]

\* --------------------------------------------- the caller's tensor (aliasing)
\* Fault variant of clone: the tensor itself is handed on, not a copy.
clone_shares_storage(t) == [storage |-> "caller", data |-> t]

\* inpt_tensor.clone(): the same values in a storage of its own.
clone(t) == [storage |-> "clone", data |-> t]

\* The buffer get_norm_float_weight was handed, after it ran: "block /=
\* self.scalers[i]" divides block i in place (flatten() and the slice are views).
\* With an odd block_size the pair loop of block 0 raises, after block 0 alone was
\* divided; a failed assert leaves the buffer as it was.
Debug_divided_in_place(t, bs) ==
    IF ~divisible_by_block_size(t, bs) \/ ~numel_is_even(t) THEN t
    ELSE LET scalers == Debug_get_scalers(t, bs, 0, <<>>)
             divided == IF bs % 2 = 1 THEN 1 ELSE Len(scalers)
         IN  [k \in 1..Len(t) |->
                IF (k - 1) \div bs < divided
                THEN RDiv(t[k], scalers[((k - 1) \div bs) + 1])
                ELSE t[k]]

\* The caller's tensor t after a call that was handed arg and left its buffer as
\* after: the caller sees the writes only when arg shares the caller's storage.
written_back(arg, after, t) == IF arg.storage = "caller" THEN after ELSE t

\* ------------------------------------------------------- the codec: Spec
\* Every bfloat16 tensor of 1..MaxLen integers of magnitude <= MaxAbs.
Tensors ==
    UNION { { [k \in 1..n |-> Rat(f[k], 1)] : f \in [1..n -> (0 - MaxAbs)..MaxAbs] }
            : n \in 1..MaxLen }

HarnessIdle ==
    /\ value = <<>>
    /\ indexes = NotCalled
    /\ indexes_debug = NotCalled
    /\ packed = NotCalled
    /\ unpacked = NotCalled

NotQuantized ==
    [ status |-> "none", quantized_scalers |-> <<>>, quantization_factor |-> <<>>,
      scaler_mean |-> Rat(0, 1) ]

ScalersIdle ==
    /\ scaler_block_size = 1
    /\ double_quantized = NotQuantized
    /\ dequantized_scalers = NotCalled

ReencodeIdle ==
    /\ qlora2 = NoObject
    /\ weight2 = NotCalled

\* The block loop before get_norm_float_weight is entered.
LoopNotEntered ==
    [ status |-> "none", quantized_tensor |-> <<>>, done |-> {}, writers |-> <<>> ]

LoopIdle == encode_loop = LoopNotEntered

TrainIdle ==
    /\ hyper_params = [max_iters |-> 0, gradient_accumulation_iters |-> 1]
    /\ training_config = [eval_interval |-> 1, save_interval |-> 1]
    /\ micro_batch = 1
    /\ completed = 0
    /\ step_count = 0
    /\ this_batch_loss = 0
    /\ this_batch_n = 0
    /\ grads = 0
    /\ optimizer_steps = <<>>
    /\ stepped_at = {}
    /\ reset_at = {}
    /\ train_status = "none"

Init ==
    /\ inpt_tensor \in Tensors
    /\ block_size \in 1..MaxBlockSize
    /\ qlora = NoObject
    /\ qlora_debug = NoObject
    /\ weight = NotCalled
    /\ weight_debug = NotCalled
    /\ HarnessIdle
    /\ ScalersIdle
    /\ ReencodeIdle
    /\ LoopIdle
    /\ TrainIdle

\* qlora = QLoRAWeight(inpt_tensor, block_size).  The constructor hands
\* inpt_tensor.clone() to convert_to_norm_float_weight, whose "blocks / scales"
\* allocates its result: the buffer it was handed stays as it was.
NewQLoRAWeight ==
    /\ qlora.status = "none"
    /\ qlora' = QLoRAWeight(inpt_tensor, block_size)
    /\ inpt_tensor' = written_back(clone(inpt_tensor), inpt_tensor, inpt_tensor)
    /\ UNCHANGED << block_size, qlora_debug, weight, weight_debug >>
    /\ UNCHANGED harness_vars
    /\ UNCHANGED extra_vars
    /\ UNCHANGED scaler_vars

\* qlora_debug = QLoRAWeightDebug(inpt_tensor, block_size)
NewQLoRAWeightDebug ==
    /\ qlora_debug.status = "none"
    /\ qlora_debug' = QLoRAWeightDebug(inpt_tensor, block_size)
    /\ inpt_tensor' = written_back(clone(inpt_tensor),
                                   Debug_divided_in_place(inpt_tensor, block_size),
                                   inpt_tensor)
    /\ UNCHANGED << block_size, qlora, weight, weight_debug >>
    /\ UNCHANGED harness_vars
    /\ UNCHANGED extra_vars
    /\ UNCHANGED scaler_vars

\* weight = qlora.get_original_weight(), on a constructed object, any number of times
CallGetOriginalWeight ==
    /\ qlora.status = "ok"
    /\ weight' = get_original_weight(qlora)
    /\ UNCHANGED << inpt_tensor, block_size, qlora, qlora_debug, weight_debug >>
    /\ UNCHANGED harness_vars
    /\ UNCHANGED extra_vars
    /\ UNCHANGED scaler_vars

\* weight_debug = qlora_debug.get_original_weight()
CallDebugGetOriginalWeight ==
    /\ qlora_debug.status = "ok"
    /\ \E garbage \in GarbageValues :
          weight_debug' = Debug_get_original_weight(qlora_debug, garbage)
    /\ UNCHANGED << inpt_tensor, block_size, qlora, qlora_debug, weight >>
    /\ UNCHANGED harness_vars
    /\ UNCHANGED extra_vars
    /\ UNCHANGED scaler_vars

Next ==
    \/ NewQLoRAWeight
    \/ NewQLoRAWeightDebug
    \/ CallGetOriginalWeight
    \/ CallDebugGetOriginalWeight

Spec == Init /\ [][Next]_vars

\* ----------------------------------------- the static methods: SpecHarness
\* The values handed to the quantizers: eighths up to MaxProbe/8, every entry of
\* both tables, and NaN.
ProbeValues ==
    { Rat(k, 8) : k \in (0 - MaxProbe)..MaxProbe }
        \cup { nf4[i] : i \in 1..16 } \cup { get_nkf[i] : i \in 1..16 } \cup { NaN }

CodecIdle ==
    /\ inpt_tensor = <<>>
    /\ block_size = 1
    /\ qlora = NoObject
    /\ qlora_debug = NoObject
    /\ weight = NotCalled
    /\ weight_debug = NotCalled

InitHarness ==
    /\ value \in { <<a, b>> : a \in ProbeValues, b \in ProbeValues }
    /\ indexes = NotCalled
    /\ indexes_debug = NotCalled
    /\ packed = NotCalled
    /\ unpacked = NotCalled
    /\ CodecIdle
    /\ ScalersIdle
    /\ ReencodeIdle
    /\ LoopIdle
    /\ TrainIdle

\* indexes = QLoRAWeight.quantize_tensor(value, nf4)
CallQuantizeTensor ==
    /\ indexes.status = "none"
    /\ indexes' = Returned(quantize_tensor(value, nf4))
    /\ UNCHANGED << value, indexes_debug, packed, unpacked >>
    /\ UNCHANGED codec_vars
    /\ UNCHANGED extra_vars
    /\ UNCHANGED scaler_vars

\* indexes_debug = [QLoRAWeightDebug.quantize(v, nkf) for v in value]
CallQuantize ==
    /\ indexes_debug.status = "none"
    /\ indexes_debug' = Returned([k \in 1..Len(value) |-> quantize(value[k], get_nkf)])
    /\ UNCHANGED << value, indexes, packed, unpacked >>
    /\ UNCHANGED codec_vars
    /\ UNCHANGED extra_vars
    /\ UNCHANGED scaler_vars

\* (indexes[::2] << 4 | indexes[1::2]).to(torch.uint8)
CallCombine ==
    /\ indexes.status = "ok"
    /\ packed.status = "none"
    /\ packed' = Returned([k \in 1..(Len(indexes.data) \div 2) |->
                              ToUint8(combine(indexes.data)[k])])
    /\ UNCHANGED << value, indexes, indexes_debug, unpacked >>
    /\ UNCHANGED codec_vars
    /\ UNCHANGED extra_vars
    /\ UNCHANGED scaler_vars

\* first_elements = packed >> 4, second_elements = packed & 0b1111
CallUnpack ==
    /\ packed.status = "ok"
    /\ unpacked.status = "none"
    /\ unpacked' = Returned(<< [k \in 1..Len(packed.data) |-> ShiftRight4(packed.data[k])],
                               [k \in 1..Len(packed.data) |-> BitAnd(packed.data[k], 15)] >>)
    /\ UNCHANGED << value, indexes, indexes_debug, packed >>
    /\ UNCHANGED codec_vars
    /\ UNCHANGED extra_vars
    /\ UNCHANGED scaler_vars

NextHarness ==
    \/ CallQuantizeTensor
    \/ CallQuantize
    \/ CallCombine
    \/ CallUnpack

SpecHarness == InitHarness /\ [][NextHarness]_vars

\* ------------------------------ double quantization of the scales: SpecScalers
\* The two-level quantization of the block scales, as the design document gives it
\* (its section 4.5); the arithmetic is exact.
RECURSIVE GCD(_, _)
GCD(a, b) == IF b = 0 THEN a ELSE GCD(b, a % b)

\* The same finite rational in lowest terms.
Reduce(r) == Rat(r.n \div GCD(Abs(r.n), r.d), r.d \div GCD(Abs(r.n), r.d))

RAdd(a, b) == Reduce(Rat(a.n * b.d + b.n * a.d, a.d * b.d))

RECURSIVE RSum(_)
RSum(s) == IF s = <<>> THEN Rat(0, 1) ELSE RAdd(Head(s), RSum(Tail(s)))

\* round(r) for a finite r: nearest integer, ties to even.
RRound(r) == Sign(r.n) * RoundHalfEven(Abs(r.n), r.d)

Clip(k, lo, hi) == IF k < lo THEN lo ELSE IF k > hi THEN hi ELSE k

\* The 0-based group of block i (0-based).
group_of(i, sbs) == i \div sbs

NumGroups(n, sbs) == (n + sbs - 1) \div sbs

\* What a NaN becomes when it is cast to an 8-bit integer: not defined.
NaNAsInt8 == {0 - 128, 0, 127}

\* Steps 1 to 6: mean, centering, one absmax per group of sbs consecutive scales
\* (the last group may be shorter), index = round(centered / absmax * 127) clipped
\* to -127..127.  A group whose centered scales are all 0 divides 0 by 0.
double_quantize_scalers(scalers, sbs, nan_index) ==
    LET n == Len(scalers)
        scaler_mean == RDivExact(RSum(scalers), Rat(n, 1))
        centered == [i \in 1..n |-> RSub(scalers[i], scaler_mean)]
        group_absmax == [g \in 1..NumGroups(n, sbs) |->
                            RMaxAbs(Slice(centered, (g - 1) * sbs, g * sbs), Rat(0, 1))]
        scaled == [i \in 1..n |->
                      RMulExact(RDivExact(centered[i], group_absmax[group_of(i - 1, sbs) + 1]),
                                Rat(127, 1))]
    IN  [ status |-> "ok",
          quantized_scalers |-> [i \in 1..n |->
              IF IsNaN(scaled[i]) THEN nan_index
              ELSE Clip(RRound(scaled[i]), 0 - 127, 127)],
          quantization_factor |-> group_absmax,
          scaler_mean |-> scaler_mean ]

\* scale[i] = index[i] / 127 * group_absmax[group_of(i)] + scaler_mean
dequantize_scalers(quantized_scalers, quantization_factor, scaler_mean, sbs) ==
    [i \in 1..Len(quantized_scalers) |->
        RAdd(RMulExact(Rat(quantized_scalers[i], 127),
                       quantization_factor[group_of(i - 1, sbs) + 1]),
             scaler_mean)]

\* Tensors of 1..MaxBlocks blocks of two elements: block i holds its scale, of
\* alternating sign, and a zero.
ScaledTensor(f) ==
    [k \in 1..(2 * Len(f)) |->
        IF k % 2 = 0 THEN Rat(0, 1)
        ELSE Rat((IF ((k + 1) \div 2) % 2 = 0 THEN 0 - 1 ELSE 1) * f[(k + 1) \div 2], 1)]

ScaledTensors ==
    UNION { { ScaledTensor(f) : f \in [1..n -> 0..MaxScale] } : n \in 1..MaxBlocks }

InitScalers ==
    /\ inpt_tensor \in ScaledTensors
    /\ block_size = 2
    /\ scaler_block_size \in 1..MaxScalerBlockSize
    /\ qlora = NoObject
    /\ qlora_debug = NoObject
    /\ weight = NotCalled
    /\ weight_debug = NotCalled
    /\ double_quantized = NotQuantized
    /\ dequantized_scalers = NotCalled
    /\ HarnessIdle
    /\ ReencodeIdle
    /\ LoopIdle
    /\ TrainIdle

\* qlora = QLoRAWeight(inpt_tensor, block_size, scaler_block_size)
NewQLoRAWeightDoubleQuantized ==
    /\ qlora.status = "none"
    /\ qlora' = QLoRAWeight(inpt_tensor, block_size)
    /\ IF qlora'.status = "ok"
       THEN \E nan_index \in NaNAsInt8 :
               double_quantized' =
                   double_quantize_scalers(qlora'.scalers, scaler_block_size, nan_index)
       ELSE double_quantized' = double_quantized
    /\ UNCHANGED << inpt_tensor, block_size, qlora_debug, weight, weight_debug >>
    /\ UNCHANGED << scaler_block_size, dequantized_scalers >>
    /\ UNCHANGED harness_vars
    /\ UNCHANGED extra_vars

\* qlora.dequantize_scalers(qlora.quantized_scalers, qlora.quantization_factor,
\*                          scaler_block_size)
CallDequantizeScalers ==
    /\ double_quantized.status = "ok"
    /\ dequantized_scalers' =
          Returned(dequantize_scalers(double_quantized.quantized_scalers,
                                      double_quantized.quantization_factor,
                                      double_quantized.scaler_mean, scaler_block_size))
    /\ UNCHANGED codec_vars
    /\ UNCHANGED << scaler_block_size, double_quantized >>
    /\ UNCHANGED harness_vars
    /\ UNCHANGED extra_vars

NextScalers ==
    \/ NewQLoRAWeightDoubleQuantized
    \/ CallDequantizeScalers

SpecScalers == InitScalers /\ [][NextScalers]_vars

\* ------------------------------------- decode of any artifact: SpecArtifact
\* get_original_weight reads block_size, scalers, norm_float_weight and
\* original_shape off self, whatever put them there (the attributes are plain and
\* public).  Every combination of a few packed bytes, a few scales, a block_size
\* and an element count of original_shape is decoded by both implementations.
SeqsUpTo(S, n) == UNION { [1..k -> S] : k \in 1..n }

Artifacts ==
    { Object("ok", bs, Len(sc), sc, nfw, <<numel>>, <<>>, <<>>) :
        bs \in 1..MaxArtifactBlockSize,
        sc \in SeqsUpTo({Rat(1, 1), Rat(2, 1)}, MaxArtifactBlocks),
        nfw \in SeqsUpTo({15, 122}, MaxArtifactBytes),
        numel \in 1..MaxArtifactNumel }

InitArtifact ==
    /\ qlora \in Artifacts
    /\ qlora_debug = qlora
    /\ inpt_tensor = <<>>
    /\ block_size = qlora.block_size
    /\ weight = NotCalled
    /\ weight_debug = NotCalled
    /\ HarnessIdle
    /\ ScalersIdle
    /\ ReencodeIdle
    /\ LoopIdle
    /\ TrainIdle

NextArtifact ==
    \/ CallGetOriginalWeight
    \/ CallDebugGetOriginalWeight

SpecArtifact == InitArtifact /\ [][NextArtifact]_vars

\* ------------------------- the block loop, one byte at a time: SpecLoop
\* Fault variant of packed_position: the block index for the block's first byte.
packed_position_per_block(i, j, bs) == i + (j \div 2)

\* (i * self.block_size // 2) + j // 2: the byte that pair j of block i is stored in.
packed_position(i, j, bs) == ((i * bs) \div 2) + (j \div 2)

\* The two pairs the tensors of SpecLoop are made of.
LoopPatterns == << << Rat(0 - 1, 1), Rat(2, 1) >>, << Rat(1, 1), Rat(0 - 1, 1) >> >>

\* Tensors of 1..MaxLoopLen elements: each consecutive pair is one of LoopPatterns
\* (an odd length cuts the last pair short).
LoopTensors ==
    UNION { { [k \in 1..n |-> LoopPatterns[f[(k + 1) \div 2]][((k - 1) % 2) + 1]] :
                f \in [1..((n + 1) \div 2) -> 1..2] } : n \in 1..MaxLoopLen }

InitLoop ==
    /\ inpt_tensor \in LoopTensors
    /\ block_size \in 1..MaxLoopBlockSize
    /\ qlora = NoObject
    /\ qlora_debug = NoObject
    /\ weight = NotCalled
    /\ weight_debug = NotCalled
    /\ HarnessIdle
    /\ ScalersIdle
    /\ ReencodeIdle
    /\ LoopIdle
    /\ TrainIdle

\* The pairs (i, j) the two nested loops of get_norm_float_weight go through.
LoopPairs(t, bs) ==
    { <<i, j>> : i \in 0..((Len(t) \div bs) - 1),
                j \in { jj \in 0..(bs - 1) : jj % 2 = 0 } }

\* get_norm_float_weight is entered (by the constructor, its first assert passed):
\* the evenness assert, then quantized_tensor = torch.zeros(numel // 2).
EnterEncodeLoop ==
    /\ encode_loop.status = "none"
    /\ divisible_by_block_size(inpt_tensor, block_size)
    /\ encode_loop' =
          IF ~numel_is_even(inpt_tensor)
          THEN [encode_loop EXCEPT !.status = "AssertionError"]
          ELSE [ status |-> "running",
                 quantized_tensor |-> [k \in 1..(Len(inpt_tensor) \div 2) |-> 0],
                 done |-> {},
                 writers |-> [k \in 1..(Len(inpt_tensor) \div 2) |-> <<>>] ]
    /\ UNCHANGED << codec_vars, harness_vars, scaler_vars, reencode_vars, train_vars >>

\* One pass of the inner loop body, for a pair (i, j) not yet processed, in any
\* order: the two elements of block i divided by scalers[i], quantized, combined
\* and stored.  writers records, per byte, the blocks that stored into it.
EncodePair ==
    /\ encode_loop.status = "running"
    /\ \E pair \in LoopPairs(inpt_tensor, block_size) \ encode_loop.done :
          LET i == pair[1]
              j == pair[2]
              scalers == Debug_get_scalers(inpt_tensor, block_size, 0, <<>>)
              block == [k \in 1..block_size |->
                           RDiv(inpt_tensor[i * block_size + k], At(scalers, i))]
              pos == packed_position(i, j, block_size)
          IN  IF j + 1 >= Len(block) \/ pos >= Len(encode_loop.quantized_tensor)
              THEN encode_loop' = [encode_loop EXCEPT !.status = "IndexError"]
              ELSE encode_loop' =
                     [encode_loop EXCEPT
                        !.quantized_tensor[pos + 1] =
                            BitOr(ShiftLeft4(quantize(At(block, j), get_nkf)),
                                  quantize(At(block, j + 1), get_nkf)),
                        !.done = @ \cup {pair},
                        !.writers[pos + 1] = Append(@, i)]
    /\ UNCHANGED << codec_vars, harness_vars, scaler_vars, reencode_vars, train_vars >>

\* return quantized_tensor, every pair processed
LeaveEncodeLoop ==
    /\ encode_loop.status = "running"
    /\ encode_loop.done = LoopPairs(inpt_tensor, block_size)
    /\ encode_loop' = [encode_loop EXCEPT !.status = "returned"]
    /\ UNCHANGED << codec_vars, harness_vars, scaler_vars, reencode_vars, train_vars >>

NextLoop ==
    \/ NewQLoRAWeight
    \/ NewQLoRAWeightDebug
    \/ CallGetOriginalWeight
    \/ CallDebugGetOriginalWeight
    \/ EnterEncodeLoop
    \/ EncodePair
    \/ LeaveEncodeLoop

SpecLoop == InitLoop /\ [][NextLoop]_vars

\* ------------------------------- encoding a decoded tensor again: SpecRound
\* One block of two integers, the second positive: <<x, y>> with |x| <= MaxMagnitude
\* and 1 <= y <= MaxMagnitude.
RoundTensors ==
    { << Rat(x, 1), Rat(y, 1) >> : x \in (0 - MaxMagnitude)..MaxMagnitude,
                                  y \in 1..MaxMagnitude }

InitRound ==
    /\ inpt_tensor \in RoundTensors
    /\ block_size = 2
    /\ qlora = NoObject
    /\ qlora_debug = NoObject
    /\ weight = NotCalled
    /\ weight_debug = NotCalled
    /\ HarnessIdle
    /\ ScalersIdle
    /\ ReencodeIdle
    /\ LoopIdle
    /\ TrainIdle

\* qlora2 = QLoRAWeight(weight, block_size), weight the tensor qlora decoded to
Reencode ==
    /\ weight.status = "ok"
    /\ qlora2.status = "none"
    /\ qlora2' = QLoRAWeight(weight.data, block_size)
    /\ UNCHANGED << weight2, encode_loop >>
    /\ UNCHANGED << codec_vars, harness_vars, scaler_vars, train_vars >>

\* weight2 = qlora2.get_original_weight()
CallGetOriginalWeightAgain ==
    /\ qlora2.status = "ok"
    /\ weight2' = get_original_weight(qlora2)
    /\ UNCHANGED << qlora2, encode_loop >>
    /\ UNCHANGED << codec_vars, harness_vars, scaler_vars, train_vars >>

NextRound ==
    \/ NewQLoRAWeight
    \/ NewQLoRAWeightDebug
    \/ CallGetOriginalWeight
    \/ CallDebugGetOriginalWeight
    \/ Reencode
    \/ CallGetOriginalWeightAgain

SpecRound == InitRound /\ [][NextRound]_vars

\* ------------------------------------ the fine-tuning loop: SpecTrain
\* Fault variant of is_accumulating: iter_num for iter_num + 1.
is_accumulating_from_zero(iter_num, iters) == iter_num % iters # 0

\* is_accumulating = (iter_num + 1) % hyper_params.gradient_accumulation_iters != 0
is_accumulating(iter_num, iters) == (iter_num + 1) % iters # 0

\* if iter_num % hyper_params.gradient_accumulation_iters == 0: (reset the running
\* loss and sample count)
starts_window(iter_num, iters) == iter_num % iters = 0

\* train is entered: step_count = 0, this_batch_loss = 0, this_batch_n = 0, no
\* gradient accumulated.  Every interval is at least 1 (0 divides by zero).
InitTrain ==
    /\ hyper_params \in
          [ max_iters : 0..MaxIters, gradient_accumulation_iters : 1..MaxAccumulationIters ]
    /\ training_config \in [ eval_interval : 1..MaxInterval, save_interval : 1..MaxInterval ]
    /\ micro_batch \in 1..MaxMicroBatch
    /\ completed = 0
    /\ step_count = 0
    /\ this_batch_loss = 0
    /\ this_batch_n = 0
    /\ grads = 0
    /\ optimizer_steps = <<>>
    /\ stepped_at = {}
    /\ reset_at = {}
    /\ train_status = "running"
    /\ CodecIdle
    /\ HarnessIdle
    /\ ScalersIdle
    /\ ReencodeIdle
    /\ LoopIdle

\* One pass of the body of "for iter_num in range(hyper_params.max_iters)".  The
\* loss of a batch counts 1.  validate() and the logging leave the locals alone;
\* torch.save(checkpoint_path, {"model": model}) is handed a dict where it expects
\* a file and raises, which ends train inside the iteration.
TrainIteration ==
    /\ train_status = "running"
    /\ completed < hyper_params.max_iters
    /\ LET iter_num == completed
           iters == hyper_params.gradient_accumulation_iters
           accumulating == is_accumulating(iter_num, iters)
           reset == starts_window(iter_num, iters)
           step_count_after == IF accumulating THEN step_count ELSE step_count + 1
           saves == ~accumulating /\ step_count_after % training_config.save_interval = 0
       IN  /\ reset_at' = IF reset THEN reset_at \cup {iter_num} ELSE reset_at
           /\ this_batch_loss' = (IF reset THEN 0 ELSE this_batch_loss) + 1
           /\ this_batch_n' = (IF reset THEN 0 ELSE this_batch_n) + micro_batch
           /\ grads' = IF accumulating THEN grads + 1 ELSE 0
           /\ optimizer_steps' = IF accumulating THEN optimizer_steps
                                  ELSE Append(optimizer_steps, grads + 1)
           /\ stepped_at' = IF accumulating THEN stepped_at ELSE stepped_at \cup {iter_num}
           /\ step_count' = step_count_after
           /\ train_status' = IF saves THEN "raised" ELSE "running"
           /\ completed' = IF saves THEN completed ELSE completed + 1
    /\ UNCHANGED << hyper_params, training_config, micro_batch >>
    /\ UNCHANGED << codec_vars, harness_vars, scaler_vars, reencode_vars, encode_loop >>

\* range(max_iters) is exhausted: train returns.
TrainReturn ==
    /\ train_status = "running"
    /\ completed = hyper_params.max_iters
    /\ train_status' = "returned"
    /\ UNCHANGED << hyper_params, training_config, micro_batch, completed, step_count,
                    this_batch_loss, this_batch_n, grads, optimizer_steps, stepped_at,
                    reset_at >>
    /\ UNCHANGED << codec_vars, harness_vars, scaler_vars, reencode_vars, encode_loop >>

NextTrain ==
    \/ TrainIteration
    \/ TrainReturn

SpecTrain == InitTrain /\ [][NextTrain]_vars

\* ================================================================= claims
\* The smallest 0-based index i with v <= table[i], 15 when there is none.
SmallestIndex(v, table) ==
    IF \E i \in 0..15 : RLe(v, At(table, i))
    THEN CHOOSE i \in 0..15 :
             RLe(v, At(table, i)) /\ \A j \in 0..(i - 1) : ~RLe(v, At(table, j))
    ELSE 15

\* C1: for every value v, quantize_tensor and quantize both return the smallest
\* index i in 0..15 with v <= codebook[i], and 15 when no entry is >= v.
C1_SmallestIndexOrLast ==
    /\ indexes.status = "ok" =>
         \A k \in 1..Len(value) : indexes.data[k] = SmallestIndex(value[k], nf4)
    /\ indexes_debug.status = "ok" =>
         \A k \in 1..Len(value) : indexes_debug.data[k] = SmallestIndex(value[k], get_nkf)

\* The objects that were constructed.
Built == { o \in {qlora, qlora_debug} : o.status = "ok" }

\* C2: in every constructed object each computed index is in 0..15, each combined
\* value fits in a byte before the cast, and each stored nibble is in 0..15.
C2_IndexesInRange ==
    \A o \in Built :
        /\ \A k \in 1..Len(o.quantized_blocks) : o.quantized_blocks[k] \in 0..15
        /\ \A k \in 1..Len(o.combined_blocks) : o.combined_blocks[k] \in 0..255
        /\ \A k \in 1..Len(o.norm_float_weight) :
              /\ ShiftRight4(o.norm_float_weight[k]) \in 0..15
              /\ BitAnd(o.norm_float_weight[k], 15) \in 0..15

\* The nibble stored for flattened element p (1-based): the high nibble of byte
\* (p-1) div 2 for the first element of a pair, the low nibble for the second.
StoredIndex(o, p) ==
    LET byte == o.norm_float_weight[((p - 1) \div 2) + 1]
    IN  IF p % 2 = 1 THEN ShiftRight4(byte) ELSE BitAnd(byte, 15)

\* The flattened positions (1-based) of block i (1-based) of an object.
BlockPositions(o, i) == ((i - 1) * o.block_size + 1)..(i * o.block_size)

ZeroBlock(o, i) == \A p \in BlockPositions(o, i) : inpt_tensor[p].n = 0

\* C3: an all-zero block gets scale 0 and index 7 (the 0.0 entry) for every
\* element, and decodes to 0 everywhere.
C3_ZeroBlockStoresZeroCodepoint ==
    /\ \A o \in Built : \A i \in 1..o.n_blocks :
          ZeroBlock(o, i) =>
              /\ REq(o.scalers[i], Rat(0, 1))
              /\ \A p \in BlockPositions(o, i) : StoredIndex(o, p) = 7
    /\ weight.status = "ok" =>
          \A i \in 1..qlora.n_blocks : ZeroBlock(qlora, i) =>
              \A p \in BlockPositions(qlora, i) : REq(weight.data[p], Rat(0, 1))
    /\ weight_debug.status = "ok" =>
          \A i \in 1..qlora_debug.n_blocks : ZeroBlock(qlora_debug, i) =>
              \A p \in BlockPositions(qlora_debug, i) : REq(weight_debug.data[p], Rat(0, 1))

\* C4: a constructor that ran on an element count that block_size does not divide,
\* or on an odd element count, raised and left no artifact; an artifact exists
\* only when block_size divides the element count and the count is even.
C4_ShapeErrors ==
    \A o \in {qlora, qlora_debug} :
        /\ (o.status # "none" /\ (Len(inpt_tensor) % block_size # 0 \/ Len(inpt_tensor) % 2 # 0))
              => (o.status # "ok" /\ o.norm_float_weight = <<>> /\ o.scalers = <<>>)
        /\ o.status = "ok" => (Len(inpt_tensor) % block_size = 0 /\ Len(inpt_tensor) % 2 = 0)

\* C4 witness: block_size divides an odd element count, and both constructors raised.
C4_Witness ==
    /\ Len(inpt_tensor) % block_size = 0
    /\ Len(inpt_tensor) % 2 = 1
    /\ qlora.status = "AssertionError"
    /\ qlora_debug.status = "AssertionError"

\* C5: no artifact has an odd block_size.
C5_NoOddBlockSize == \A o \in Built : o.block_size % 2 = 0

\* C6: for an index pair (a, b) in 0..15 x 0..15, the nibbles read back from the
\* byte (a << 4) | b are (a, b), the byte is in 0..255, and no other pair of
\* 0..15 x 0..15 combines to the same byte.
C6_PackUnpack ==
    (/\ unpacked.status = "ok"
     /\ indexes.data[1] \in 0..15
     /\ indexes.data[2] \in 0..15)
    => /\ unpacked.data = << <<indexes.data[1]>>, <<indexes.data[2]>> >>
       /\ packed.data[1] \in 0..255
       /\ \A c \in 0..15 : \A d \in 0..15 :
             <<c, d>> # indexes.data => ToUint8(combine(<<c, d>>)[1]) # packed.data[1]

\* C6 witness: a pair with two different non-zero nibbles went through both steps.
C6_Witness ==
    /\ unpacked.status = "ok"
    /\ indexes.data = <<10, 5>>
    /\ packed.data = <<165>>

\* C7: x1 <= x2 implies quantize(x1) <= quantize(x2), for quantize_tensor and for
\* the linear scan.
C7_Monotone ==
    (Len(value) = 2 /\ RLe(value[1], value[2])) =>
        /\ indexes.status = "ok" => indexes.data[1] <= indexes.data[2]
        /\ indexes_debug.status = "ok" => indexes_debug.data[1] <= indexes_debug.data[2]

\* C7 witness: x1 < x2 were quantized to different indexes by both quantizers.
C7_Witness ==
    /\ Len(value) = 2
    /\ RLt(value[1], value[2])
    /\ indexes.status = "ok" /\ indexes.data[1] < indexes.data[2]
    /\ indexes_debug.status = "ok" /\ indexes_debug.data[1] < indexes_debug.data[2]

\* max(|w - inpt_tensor|) over the elements of a returned tensor.
MaxAbsError(w) ==
    RMaxAbs([k \in 1..Len(w) |-> RSub(w[k], inpt_tensor[k])], Rat(0, 1))

\* C8: the two implementations produce the same scales and the same packed bytes,
\* and the maximum reconstruction errors of their decoded tensors differ by less
\* than 1e-2.
C8_DebugEquivalence ==
    /\ (qlora.status = "ok" /\ qlora_debug.status = "ok") =>
          /\ Len(qlora.scalers) = Len(qlora_debug.scalers)
          /\ \A i \in 1..Len(qlora.scalers) : REq(qlora.scalers[i], qlora_debug.scalers[i])
          /\ qlora.norm_float_weight = qlora_debug.norm_float_weight
    /\ (weight.status = "ok" /\ weight_debug.status = "ok") =>
          RLt(RAbs(RSub(MaxAbsError(weight.data), MaxAbsError(weight_debug.data))),
              Rat(1, 100))

\* The scale of the block that flattened element p (1-based) belongs to.
ScaleOf(o, p) == o.scalers[((p - 1) \div o.block_size) + 1]

\* |w[p] - inpt_tensor[p]|
ErrorAt(w, p) == RAbs(RSub(w[p], inpt_tensor[p]))

\* C9 as stated: every element is reconstructed within one fixed epsilon (0.1, the
\* top of the stated range), whatever the block's scale.
C9_FixedEpsilon ==
    weight.status = "ok" =>
        \A p \in 1..Len(weight.data) : RLe(ErrorAt(weight.data, p), Rat(1, 10))

\* C9 amended: every element is reconstructed within 5/16 of its block's scale
\* (the widest gap of the table, -1 to -0.6962, plus the bfloat16 roundings), by
\* both implementations; the bound grows with the scale.
C9_ErrorWithinScaledGap ==
    /\ weight.status = "ok" =>
          \A p \in 1..Len(weight.data) :
              RLe(ErrorAt(weight.data, p), RMulExact(Rat(5, 16), ScaleOf(qlora, p)))
    /\ weight_debug.status = "ok" =>
          \A p \in 1..Len(weight_debug.data) :
              RLe(ErrorAt(weight_debug.data, p), RMulExact(Rat(5, 16), ScaleOf(qlora_debug, p)))

\* C9 witness: a decoded element is off by more than 0.1 in a block of scale > 1.
C9_Witness ==
    /\ weight.status = "ok"
    /\ \E p \in 1..Len(weight.data) :
          /\ RLt(Rat(1, 10), ErrorAt(weight.data, p))
          /\ RLt(Rat(1, 1), ScaleOf(qlora, p))

\* The absolute maximum of block i (1-based) of the input, computed on its own.
BlockAbsMax(i) ==
    RMaxAbs(Slice(inpt_tensor, (i - 1) * block_size, i * block_size), Rat(0, 1))

NumBlocks == Len(inpt_tensor) \div block_size

\* The layout C10 describes: one signed 8-bit index per block, one factor per group
\* of scaler_block_size consecutive scales, the last group possibly shorter.
DoubleQuantizedLayout ==
    /\ Len(double_quantized.quantized_scalers) = NumBlocks
    /\ \A i \in 1..NumBlocks : double_quantized.quantized_scalers[i] \in (0 - 128)..127
    /\ Len(double_quantized.quantization_factor) = NumGroups(NumBlocks, scaler_block_size)

ScalesOfBlocks(o) ==
    /\ Len(o.scalers) * block_size = Len(inpt_tensor)
    /\ Len(o.scalers) = o.n_blocks
    /\ \A i \in 1..Len(o.scalers) :
          /\ RLe(Rat(0, 1), o.scalers[i])
          /\ \A p \in ((i - 1) * block_size + 1)..(i * block_size) :
                RLe(RAbs(inpt_tensor[p]), o.scalers[i])
          /\ \E p \in ((i - 1) * block_size + 1)..(i * block_size) :
                REq(RAbs(inpt_tensor[p]), o.scalers[i])

\* C11: get_scalers returns n_blocks = numel / block_size scales, scale i being the
\* maximum of |x| over block i, in block order and never negative, and the
\* vectorized and the loop implementation return the same sequence.
C11_ScalersAreBlockAbsMax ==
    /\ \A o \in Built : ScalesOfBlocks(o)
    /\ (qlora.status = "ok" /\ qlora_debug.status = "ok") =>
          /\ Len(qlora.scalers) = Len(qlora_debug.scalers)
          /\ \A i \in 1..Len(qlora.scalers) : REq(qlora.scalers[i], qlora_debug.scalers[i])

\* C11 witness: both objects built on two blocks of two elements with different
\* scales, the first block's maximum attained by a negative second element only.
C11_Witness ==
    /\ qlora.status = "ok"
    /\ qlora_debug.status = "ok"
    /\ block_size = 2
    /\ Len(qlora.scalers) = 2
    /\ ~REq(qlora.scalers[1], qlora.scalers[2])
    /\ inpt_tensor[2].n < 0
    /\ RLt(RAbs(inpt_tensor[1]), RAbs(inpt_tensor[2]))

\* C12: the packed data has numel / 2 bytes, and byte k holds the index computed
\* for flattened element 2k in its high nibble and the index computed for element
\* 2k+1 in its low nibble (k from 0), in both implementations.
C12_ConsecutivePairing ==
    \A o \in Built :
        /\ 2 * Len(o.norm_float_weight) = Len(inpt_tensor)
        /\ \A k \in 1..Len(o.norm_float_weight) :
              /\ ShiftRight4(o.norm_float_weight[k]) = o.quantized_blocks[2 * k - 1]
              /\ BitAnd(o.norm_float_weight[k], 15) = o.quantized_blocks[2 * k]

\* C13: no step changes the caller's tensor, no step changes a constructed object,
\* and a get_original_weight that returned a tensor returns the same tensor on
\* every later call.
C13_NoSideEffects ==
    [][ /\ inpt_tensor' = inpt_tensor
        /\ (qlora.status = "ok" => qlora' = qlora)
        /\ (qlora_debug.status = "ok" => qlora_debug' = qlora_debug)
        /\ (weight.status = "ok" => weight' = weight)
        /\ (weight_debug.status = "ok" => weight_debug' = weight_debug) ]_vars

\* C13 witness: both objects were built and decoded, on a tensor that the in-place
\* division of the loop implementation does change.
C13_Witness ==
    /\ qlora.status = "ok"
    /\ qlora_debug.status = "ok"
    /\ weight.status = "ok"
    /\ weight_debug.status = "ok"
    /\ Debug_divided_in_place(inpt_tensor, block_size) # inpt_tensor

\* |v - a| <= |v - b|, by the side of v the two lie on: on the same side the one
\* between is nearer, on opposite sides v is compared with their midpoint.
AsNear(v, a, b) ==
    IF RLe(v, a) /\ RLe(v, b) THEN RLe(a, b)
    ELSE IF RLe(a, v) /\ RLe(b, v) THEN RLe(b, a)
    ELSE IF RLe(v, a) THEN RLe(RAdd(a, b), RAdd(v, v))
    ELSE RLe(RAdd(v, v), RAdd(a, b))

InUnitRange(v) == RLe(Rat(0 - 1, 1), v) /\ RLe(v, Rat(1, 1))

\* i is the index of a codepoint nearest to v.
Nearest(v, table, i) ==
    \A j \in 0..15 : AsNear(v, At(table, i), At(table, j))

\* i is the index of the nearest codepoint that is not below v: table[i] >= v, no
\* codepoint >= v is nearer, and the codepoint before it is below v.
NearestAtOrAbove(v, table, i) ==
    /\ i \in 0..15
    /\ RLe(v, At(table, i))
    /\ \A j \in 0..15 : RLe(v, At(table, j)) => AsNear(v, At(table, i), At(table, j))
    /\ i > 0 => RLt(At(table, i - 1), v)

\* C14 as stated: for every v in [-1, 1] the returned index minimizes
\* |v - codebook[i]| over the 16 codepoints, in both quantizers.
C14_NearestCodepoint ==
    /\ indexes.status = "ok" =>
          \A k \in 1..Len(value) :
              InUnitRange(value[k]) => Nearest(value[k], nf4, indexes.data[k])
    /\ indexes_debug.status = "ok" =>
          \A k \in 1..Len(value) :
              InUnitRange(value[k]) => Nearest(value[k], get_nkf, indexes_debug.data[k])

\* C14 amended: for every v in [-1, 1] the returned index is that of the nearest
\* codepoint at or above v (v is rounded up to the codebook), in both quantizers.
C14_NearestCodepointAtOrAbove ==
    /\ indexes.status = "ok" =>
          \A k \in 1..Len(value) :
              InUnitRange(value[k]) => NearestAtOrAbove(value[k], nf4, indexes.data[k])
    /\ indexes_debug.status = "ok" =>
          \A k \in 1..Len(value) :
              InUnitRange(value[k]) =>
                  NearestAtOrAbove(value[k], get_nkf, indexes_debug.data[k])

\* C14 witness: both quantizers ran on 0.25 and returned index 11 (0.3379), while
\* index 10 (0.2461) is nearer.
C14_Witness ==
    /\ indexes.status = "ok"
    /\ indexes_debug.status = "ok"
    /\ value[1] = Rat(2, 8)
    /\ indexes.data[1] = 11
    /\ indexes_debug.data[1] = 11
    /\ ~AsNear(value[1], At(nf4, 11), At(nf4, 10))
    /\ ~AsNear(value[1], At(get_nkf, 11), At(get_nkf, 10))

\* The packed data of an artifact is not half of n_blocks * block_size bytes, or not
\* half the element count of original_shape.
LengthMismatch(o) ==
    \/ 2 * Len(o.norm_float_weight) # o.n_blocks * o.block_size
    \/ 2 * Len(o.norm_float_weight) # o.original_shape[1]

\* C15: get_original_weight of an artifact whose packed data length does not match
\* n_blocks * block_size / 2 or half the element count of original_shape ends in an
\* error, in both implementations.
C15_DecodeRejectsMismatch ==
    /\ (weight.status # "none" /\ LengthMismatch(qlora)) => weight.status # "ok"
    /\ (weight_debug.status # "none" /\ LengthMismatch(qlora_debug))
          => weight_debug.status # "ok"

\* The nibble of flattened element p (0-based) of an object: the high nibble of
\* byte p div 2 when p is even, the low nibble when p is odd.
NibbleOf(o, p) ==
    IF p % 2 = 0 THEN ShiftRight4(At(o.norm_float_weight, p \div 2))
    ELSE BitAnd(At(o.norm_float_weight, p \div 2), 15)

\* w is the tensor of original_shape whose element p is
\* table[nibble of p] * scale[p div block_size].
DecodedAs(o, w, table) ==
    /\ Len(w) = o.original_shape[1]
    /\ \A p \in 0..(Len(w) - 1) :
          At(w, p) = RMul(At(table, NibbleOf(o, p)), At(o.scalers, p \div o.block_size))

\* C16: a tensor that get_original_weight returns has the original shape and its
\* element p is codebook[idx_p] * scale[p div block_size], idx_p being the high
\* nibble of byte p div 2 for even p and the low nibble for odd p, in both
\* implementations; the loop assigns every position exactly once.
C16_DecodeFormula ==
    /\ weight.status = "ok" => DecodedAs(qlora, weight.data, nf4)
    /\ weight_debug.status = "ok" =>
          /\ DecodedAs(qlora_debug, weight_debug.data, get_nkf)
          /\ \A k \in 1..Len(weight_debug.writes) : weight_debug.writes[k] = 1

\* C16 witness: both implementations decoded two blocks of four elements with
\* different scales, from bytes whose two nibbles differ.
C16_Witness ==
    /\ weight.status = "ok"
    /\ weight_debug.status = "ok"
    /\ block_size = 4
    /\ Len(weight.data) = 8
    /\ Len(weight_debug.data) = 8
    /\ ~REq(qlora.scalers[1], qlora.scalers[2])
    /\ \A p \in {0, 2, 4, 6} : NibbleOf(qlora, p) # NibbleOf(qlora, p + 1)

\* The bytes of block i (0-based): i*block_size/2 .. (i+1)*block_size/2 - 1.
RegionOf(i, bs) == ((i * bs) \div 2)..((((i + 1) * bs) \div 2) - 1)

\* C17: with an even block_size, whatever the order the pairs are processed in, a
\* byte is stored into at most once and only by the block whose region
\* i*block_size/2 .. (i+1)*block_size/2 - 1 holds it; when the loop returns every
\* byte was stored into exactly once and the packed data is that of the
\* sequential loop.
C17_DisjointBlockRegions ==
    (encode_loop.status \in {"running", "returned"} /\ block_size % 2 = 0) =>
        /\ \A k \in 1..Len(encode_loop.writers) :
              /\ Len(encode_loop.writers[k]) <= 1
              /\ \A w \in 1..Len(encode_loop.writers[k]) :
                    (k - 1) \in RegionOf(encode_loop.writers[k][w], block_size)
        /\ encode_loop.status = "returned" =>
              /\ \A k \in 1..Len(encode_loop.writers) : Len(encode_loop.writers[k]) = 1
              /\ encode_loop.quantized_tensor =
                    Debug_get_norm_float_weight(
                        inpt_tensor, Debug_get_scalers(inpt_tensor, block_size, 0, <<>>),
                        block_size).quantized_tensor

\* C17 witness: two blocks of four elements, the loop returned, and the two blocks
\* stored different bytes.
C17_Witness ==
    /\ encode_loop.status = "returned"
    /\ block_size = 4
    /\ Len(encode_loop.quantized_tensor) = 4
    /\ encode_loop.writers = << <<0>>, <<0>>, <<1>>, <<1>> >>
    /\ encode_loop.quantized_tensor[1] # encode_loop.quantized_tensor[3]

\* The (object, decoded tensor) pairs of the decodes that returned.
Decoded ==
    { r \in { [o |-> qlora, w |-> weight], [o |-> qlora_debug, w |-> weight_debug] } :
        r.w.status = "ok" }

\* Element p (1-based) of the input attains the absolute maximum of its block and
\* was decoded to itself, from index 15 when positive and index 0 when negative.
ExactAtAbsMax(o, w, p) ==
    REq(RAbs(inpt_tensor[p]), ScaleOf(o, p)) =>
        /\ REq(w[p], inpt_tensor[p])
        /\ StoredIndex(o, p) = IF inpt_tensor[p].n > 0 THEN 15 ELSE 0

\* C18 as stated: in a block with non-zero scale every element decodes to a value
\* >= itself, and the elements attaining the absolute maximum decode to themselves
\* (index 15 for x = s, index 0 for x = -s), in both implementations.
C18_NeverUnderestimates ==
    \A r \in Decoded : \A p \in 1..Len(r.w.data) :
        ~REq(ScaleOf(r.o, p), Rat(0, 1)) =>
            /\ RLe(inpt_tensor[p], r.w.data[p])
            /\ ExactAtAbsMax(r.o, r.w.data, p)

\* C18 amended: in a block with non-zero scale every element x decodes to a value
\* >= x - |x|/128 (the two bfloat16 roundings can take the result below x), and
\* the elements attaining the absolute maximum decode to themselves.
C18_UnderestimatesByRoundingOnly ==
    \A r \in Decoded : \A p \in 1..Len(r.w.data) :
        ~REq(ScaleOf(r.o, p), Rat(0, 1)) =>
            /\ RLe(RSub(inpt_tensor[p], RDivExact(RAbs(inpt_tensor[p]), Rat(128, 1))),
                   r.w.data[p])
            /\ ExactAtAbsMax(r.o, r.w.data, p)

\* C18 witness: both implementations decoded a block whose first element came
\* back below itself from the vectorized one, its second (the maximum) exactly.
C18_Witness ==
    /\ weight.status = "ok"
    /\ weight_debug.status = "ok"
    /\ RLt(weight.data[1], inpt_tensor[1])
    /\ REq(weight.data[2], inpt_tensor[2])
    /\ StoredIndex(qlora, 2) = 15

\* Every block of the first encoding has a non-zero scale.
NonZeroScales == \A i \in 1..Len(qlora.scalers) : ~REq(qlora.scalers[i], Rat(0, 1))

\* C19 as stated: encoding the decoded tensor again gives the same scales and the
\* same packed bytes, and decoding that gives the same tensor.
C19_Projection ==
    (qlora2.status = "ok" /\ NonZeroScales) =>
        /\ Len(qlora2.scalers) = Len(qlora.scalers)
        /\ \A i \in 1..Len(qlora.scalers) : REq(qlora2.scalers[i], qlora.scalers[i])
        /\ qlora2.norm_float_weight = qlora.norm_float_weight
        /\ weight2.status = "ok" => weight2.data = weight.data

\* C19 amended: encoding the decoded tensor again gives the same scales, and for
\* every element the same index or the next one; decoding that never gives a
\* smaller element.
C19_SameScalesIndexUpByAtMostOne ==
    (qlora2.status = "ok" /\ NonZeroScales) =>
        /\ Len(qlora2.scalers) = Len(qlora.scalers)
        /\ \A i \in 1..Len(qlora.scalers) : REq(qlora2.scalers[i], qlora.scalers[i])
        /\ \A p \in 1..Len(inpt_tensor) :
              StoredIndex(qlora2, p) - StoredIndex(qlora, p) \in {0, 1}
        /\ weight2.status = "ok" =>
              \A p \in 1..Len(weight.data) : RLe(weight.data[p], weight2.data[p])

\* C19 witness: the second encoding and decoding ran, and the first element's
\* index went up by one.
C19_Witness ==
    /\ qlora2.status = "ok"
    /\ weight2.status = "ok"
    /\ NonZeroScales
    /\ StoredIndex(qlora2, 1) = StoredIndex(qlora, 1) + 1
    /\ RLt(weight.data[1], weight2.data[1])

\* The iterations whose body ran as far as the optimizer step: the completed ones,
\* and the one that torch.save ended.
Ran == completed + (IF train_status = "raised" THEN 1 ELSE 0)

\* C20: after n completed iterations step_count is n div
\* gradient_accumulation_iters; optimizer.step(); optimizer.zero_grad() ran exactly
\* on the iterations with (iter_num + 1) a multiple of gradient_accumulation_iters,
\* each step on exactly gradient_accumulation_iters backward passes; the running
\* loss and sample count were reset exactly on the first iteration of each window.
C20_StepEveryAccumulationWindow ==
    LET iters == hyper_params.gradient_accumulation_iters
    IN  train_status # "none" =>
          /\ train_status # "raised" => step_count = completed \div iters
          /\ stepped_at = { i \in 0..(Ran - 1) : (i + 1) % iters = 0 }
          /\ Len(optimizer_steps) = step_count
          /\ \A k \in 1..Len(optimizer_steps) : optimizer_steps[k] = iters
          /\ grads = Ran % iters
          /\ reset_at = { i \in 0..(Ran - 1) : i % iters = 0 }
          /\ Ran > 0 =>
                /\ this_batch_loss = ((Ran - 1) % iters) + 1
                /\ this_batch_n = micro_batch * (((Ran - 1) % iters) + 1)

\* C20 witness: five iterations completed with windows of two: two optimizer
\* steps, one backward pass pending, the running count at one batch.
C20_Witness ==
    /\ train_status = "running"
    /\ hyper_params.gradient_accumulation_iters = 2
    /\ completed = 5
    /\ step_count = 2
    /\ grads = 1
    /\ this_batch_n = micro_batch
    /\ reset_at = {0, 2, 4}

====
